---- MODULE Spec2Model ----
(***************************************************************************)
(* A model of src/tadbit.c: the Poisson fit ml_ab, the segmentation        *)
(* break_in_blocks, the fast-mode filter remove_non_local_maxima, the      *)
(* likelihood-matrix construction of tadbit and the dynamic program        *)
(* get_breakpoints.                                                        *)
(*                                                                         *)
(* Each function has one variable holding its activation record (its       *)
(* arguments, locals and buffers, under the names of the source).  Four    *)
(* specifications are given, one per function group:                      *)
(*   SpecBlocks  break_in_blocks on reused buffers                         *)
(*   SpecMl      ml_ab                                                     *)
(*   SpecTad     tadbit up to the end of the construction loop, with       *)
(*               remove_non_local_maxima                                   *)
(*   SpecDP      get_breakpoints on the matrices tadbit hands to it        *)
(*                                                                         *)
(* Doubles.  A double is a record [k, v]: k = "num" with the integer v,    *)
(* k = "nan" or k = "ninf" (-INFINITY).  Comparisons with a NaN are false  *)
(* and sums with a NaN are NaN, as in IEEE arithmetic.  The values exp()   *)
(* produces are not computable here: wherever the source sums exp() terms  *)
(* over a non-empty sequence the model draws the result from a small set;  *)
(* a sum over an empty sequence is exactly 0, as in the source.            *)
(***************************************************************************)
EXTENDS Integers, Sequences, FiniteSets

VARIABLES blk, ml, tad, gb

vars == <<blk, ml, tad, gb>>

Idle == [pc |-> "idle"]

----------------------------------------------------------------------------
(* Doubles *)

NaN == [k |-> "nan", v |-> 0]

NegInf == [k |-> "ninf", v |-> 0]

D(x) == [k |-> "num", v |-> x]

IsNaN(x) == x.k = "nan"

\* x + y on doubles (no +INFINITY arises in the model).
Add(x, y) ==
  IF x.k = "nan" \/ y.k = "nan" THEN NaN
  ELSE IF x.k = "ninf" \/ y.k = "ninf" THEN NegInf
  ELSE D(x.v + y.v)

\* x < y on doubles: false as soon as one side is a NaN.
Lt(x, y) ==
  /\ x.k # "nan"
  /\ y.k # "nan"
  /\ \/ x.k = "ninf" /\ y.k = "num"
     \/ x.k = "num" /\ y.k = "num" /\ x.v < y.v

Le(x, y) ==
  /\ x.k # "nan"
  /\ y.k # "nan"
  /\ \/ x.k = "ninf"
     \/ x.k = "num" /\ y.k = "num" /\ x.v <= y.v

RECURSIVE SumSeq(_)
SumSeq(s) == IF s = <<>> THEN 0 ELSE Head(s) + SumSeq(Tail(s))

\* The rows visited by  for (row = lo ; row < hi ; row++), in order.
RowLoop(lo, hi) == IF hi > lo THEN [r \in 1..(hi - lo) |-> lo + r - 1] ELSE <<>>

----------------------------------------------------------------------------
(* break_in_blocks *)

MaxNB == 5

\* Number of calls made on one set of buffers.
MaxCalls == 2

\* The sizes tadbit allocates for the top/bottom and the triangular buffer.
TopCap(n) == ((n + 1) * (n + 1)) \div 4

TriCap(n) == (n * (n + 1)) \div 2

TopRows(i) == RowLoop(0, i)

TriRows_incl(i, col) == RowLoop(i, col + 1)

TriRows(i, col) == RowLoop(i, col)

BotRows(n, j) == RowLoop(j + 1, n)

\* The writes of one column: buffer b, slot written (the counter before its
\* increment), and the matrix cell copied.
ColWrites(n, i, j, col, tc, rc, bc) ==
  LET top == TopRows(i)
      tri == TriRows(i, col)
      bot == BotRows(n, j)
  IN  [r \in 1..Len(top) |-> [buf |-> 0, slot |-> tc + r - 1, row |-> top[r], col |-> col]]
      \o [r \in 1..Len(tri) |-> [buf |-> 1, slot |-> rc + r - 1, row |-> tri[r], col |-> col]]
      \o [r \in 1..Len(bot) |-> [buf |-> 2, slot |-> bc + r - 1, row |-> bot[r], col |-> col]]

RECURSIVE FillFrom(_, _, _, _, _, _, _)
FillFrom(n, i, j, col, tc, rc, bc) ==
  IF col < j + 1
  THEN ColWrites(n, i, j, col, tc, rc, bc)
       \o FillFrom(n, i, j, col + 1, tc + Len(TopRows(i)),
                   rc + Len(TriRows(i, col)), bc + Len(BotRows(n, j)))
  ELSE <<>>

\* All writes of break_in_blocks(mat, n, i, j, blocks), in program order.
BlockWrites(n, i, j) == FillFrom(n, i, j, i, 0, 0, 0)

\* Number of values one call writes to buffer b.
Written(n, i, j, b) ==
  LET ws == BlockWrites(n, i, j)
  IN  Cardinality({w \in 1..Len(ws) : ws[w].buf = b})

\* The buffers after the writes ws: a slot holds the index row+col*n of the
\* matrix cell last copied to it, or -1 while it was never written.
RECURSIVE Store(_, _, _)
Store(blocks, ws, n) ==
  IF ws = <<>> THEN blocks
  ELSE LET w == Head(ws)
       IN  Store([blocks EXCEPT ![w.buf][w.slot] = w.row + w.col * n], Tail(ws), n)

BlkInit ==
  \E n \in 1..MaxNB :
    blk = [pc |-> "ready", n |-> n, i |-> 0, j |-> 0, writes |-> <<>>, calls |-> 0,
           blocks |-> [b \in 0..2 |-> [s \in 0..((IF b = 1 THEN TriCap(n) ELSE TopCap(n)) - 1) |-> -1]]]

break_in_blocks ==
  /\ blk.pc \in {"ready", "returned"}
  /\ blk.calls < MaxCalls
  /\ \E i \in 0..(blk.n - 1), j \in 0..(blk.n - 1) :
       /\ i < j
       /\ LET ws == BlockWrites(blk.n, i, j)
          IN  blk' = [blk EXCEPT !.pc = "returned", !.i = i, !.j = j, !.writes = ws,
                                 !.calls = blk.calls + 1,
                                 !.blocks = Store(blk.blocks, ws, blk.n)]
  /\ UNCHANGED <<ml, tad, gb>>

InitBlocks == BlkInit /\ ml = Idle /\ tad = Idle /\ gb = Idle

NextBlocks == break_in_blocks

SpecBlocks == InitBlocks /\ [][NextBlocks]_vars

\* The writes of the last call that went to buffer b.
WritesTo(b) == {w \in 1..Len(blk.writes) : blk.writes[w].buf = b}

\* C2: one call of break_in_blocks at 0 <= i < j <= n-1 writes i*(j-i+1)
\* values to the top buffer, (j-i)*(j-i+1)/2 to the triangular buffer and
\* (n-j-1)*(j-i+1) to the bottom buffer, writes no buffer slot twice and
\* copies no matrix cell twice.
C2_BlockCounts ==
  blk.pc = "returned" =>
    /\ Cardinality(WritesTo(0)) = blk.i * (blk.j - blk.i + 1)
    /\ Cardinality(WritesTo(1)) = ((blk.j - blk.i) * (blk.j - blk.i + 1)) \div 2
    /\ Cardinality(WritesTo(2)) = (blk.n - blk.j - 1) * (blk.j - blk.i + 1)
    /\ \A u, w \in 1..Len(blk.writes) :
         u # w => /\ <<blk.writes[u].buf, blk.writes[u].slot>> # <<blk.writes[w].buf, blk.writes[w].slot>>
                  /\ <<blk.writes[u].row, blk.writes[u].col>> # <<blk.writes[w].row, blk.writes[w].col>>

\* A call with all three regions non-empty has returned.
C2_Witness ==
  /\ blk.pc = "returned"
  /\ blk.i > 0
  /\ blk.j - blk.i >= 2
  /\ blk.j < blk.n - 1
  /\ \A b \in 0..2 : WritesTo(b) # {}

----------------------------------------------------------------------------
(* ml_ab *)

\* Quantities are in thousandths, so f*f + g*g is in millionths and
\* TOLERANCE (1e-6) is 1.
TOLERANCE == 1

MaxL == 2

\* Caps on the Newton-Raphson loop and on the halvings of one step (the
\* source has neither).
MaxIter == 1

MaxHalve == 1

Dists == {1, 2}

\* Values of  exp(a+da+(b+db)*d[i]) - k[i]  for one element.
TmpVals == {0, 2}

\* Values of a Newton step component when the sequences are not empty.
StepVals == {D(-2), D(2)}

\* Values of  exp(a+b*d[i]) + k[i]*(a+b*d[i])  for one element.
LlikVals == {3}

StartVals == {D(-1000), D(500)}

Half(x) == IF x.k # "num" THEN x
           ELSE IF x.v < 0 THEN D(-((-x.v) \div 2)) ELSE D(x.v \div 2)

\* while ((oldgrad = f*f + g*g) > TOLERANCE)
GradAbove_rev(f, g) == f * f + g * g < TOLERANCE

GradAbove(f, g) == f * f + g * g > TOLERANCE

\* recompute_fg: f and g summed over i < n from the per-element values tmp.
FG(tmp, d) == [f |-> SumSeq(tmp), g |-> SumSeq([i \in 1..Len(tmp) |-> tmp[i] * d[i]])]

\* da and db after the derivative loop: with n = 0 all sums are 0.0 and both
\* quotients are 0.0/0.0.
Steps(n) == IF n = 0 THEN {NaN} ELSE StepVals

MlInit ==
  \E n \in 0..MaxL : \E d \in [1..n -> Dists] : \E a0 \in StartVals, b0 \in StartVals :
    ml = [pc |-> "call", n |-> n, d |-> d, ab |-> <<a0, b0>>, ab0 |-> <<a0, b0>>,
          a |-> D(0), b |-> D(0), da |-> D(0), db |-> D(0), f |-> 0, g |-> 0,
          oldgrad |-> 0, llik |-> 0, reads |-> 0, iters |-> 0, halvings |-> 0]

\* Lines 31-47: load a and b, clear da and db, recompute_fg.
MlEnter ==
  /\ ml.pc = "call"
  /\ \E tmp \in [1..ml.n -> TmpVals] :
       ml' = [ml EXCEPT !.pc = "while", !.a = ml.ab[1], !.b = ml.ab[2],
                        !.da = D(0), !.db = D(0),
                        !.f = FG(tmp, ml.d).f, !.g = FG(tmp, ml.d).g,
                        !.reads = ml.reads + ml.n]
  /\ UNCHANGED <<blk, tad, gb>>

\* Lines 50-66: the loop test holds; derivatives, the step and recompute_fg.
MlNewton ==
  /\ ml.pc = "while"
  /\ GradAbove(ml.f, ml.g)
  /\ ml.iters < MaxIter
  /\ \E da \in Steps(ml.n), db \in Steps(ml.n) : \E tmp \in [1..ml.n -> TmpVals] :
       ml' = [ml EXCEPT !.pc = "traceback", !.oldgrad = ml.f * ml.f + ml.g * ml.g,
                        !.da = da, !.db = db, !.halvings = 0,
                        !.f = FG(tmp, ml.d).f, !.g = FG(tmp, ml.d).g,
                        !.reads = ml.reads + 2 * ml.n]
  /\ UNCHANGED <<blk, tad, gb>>

\* Lines 68-72: one halving of the step.
MlHalve ==
  /\ ml.pc = "traceback"
  /\ ml.f * ml.f + ml.g * ml.g > ml.oldgrad
  /\ ml.halvings < MaxHalve
  /\ \E tmp \in [1..ml.n -> TmpVals] :
       ml' = [ml EXCEPT !.da = Half(ml.da), !.db = Half(ml.db),
                        !.halvings = ml.halvings + 1,
                        !.f = FG(tmp, ml.d).f, !.g = FG(tmp, ml.d).g,
                        !.reads = ml.reads + ml.n]
  /\ UNCHANGED <<blk, tad, gb>>

\* Lines 75-76: the step is accepted.
MlUpdate ==
  /\ ml.pc = "traceback"
  /\ ~(ml.f * ml.f + ml.g * ml.g > ml.oldgrad)
  /\ ml' = [ml EXCEPT !.pc = "while", !.a = Add(ml.a, ml.da), !.b = Add(ml.b, ml.db),
                      !.iters = ml.iters + 1]
  /\ UNCHANGED <<blk, tad, gb>>

\* Lines 81-89: the log-likelihood sum, the write-back of ab, the return.
MlReturn ==
  /\ ml.pc = "while"
  /\ ~GradAbove(ml.f, ml.g)
  /\ \E t \in [1..ml.n -> LlikVals] :
       ml' = [ml EXCEPT !.pc = "ret", !.llik = SumSeq(t), !.ab = <<ml.a, ml.b>>,
                        !.reads = ml.reads + ml.n]
  /\ UNCHANGED <<blk, tad, gb>>

InitMl == MlInit /\ blk = Idle /\ tad = Idle /\ gb = Idle

NextMl == MlEnter \/ MlNewton \/ MlHalve \/ MlUpdate \/ MlReturn

SpecMl == InitMl /\ [][NextMl]_vars

\* C6: a call of ml_ab with length 0 returns exactly 0, leaves ab[0] and
\* ab[1] as they were, reads no element of k or d and makes no
\* Newton-Raphson iteration.
C6_EmptyFit ==
  ml.pc # "idle" /\ ml.n = 0 =>
    /\ ml.reads = 0
    /\ ml.iters = 0
    /\ ml.pc # "traceback"
    /\ ml.ab = ml.ab0
    /\ ml.pc = "ret" => ml.llik = 0

\* A call with length 0 and a non-zero starting pair has returned.
C6_Witness ==
  /\ ml.pc = "ret"
  /\ ml.n = 0
  /\ ml.ab0 = <<D(-1000), D(500)>>

----------------------------------------------------------------------------
(* tadbit and remove_non_local_maxima *)

MaxNT == 8

MaxM == 2

\* Values one ml_ab call returns on a non-empty sequence (even, so that the
\* halves of the source are exact).
MlVals == {0, 2}

\* Contents of remove_non_local_maxima's array llik before it is written.
ProfGarbage == {-9, 9}

\* What ml_ab returns for length L when a non-empty fit returns r: a fit of
\* length 0 returns exactly 0 (lines 47-50 and 81-84).
MlRet(L, r) == IF L = 0 THEN 0 ELSE r

\* The lengths remove_non_local_maxima passes in its forward scan
\* (lines 162-163), for the triangular (1) and bottom (2) buffers.
FwdLen(n, j, b) == IF b = 1 THEN (j * (j + 1)) \div 2 ELSE (n - j - 1) * (j + 1)

\* The lengths it passes in its backward scan (lines 176-177), for the top
\* (0) and triangular (1) buffers.
BwdLen(n, j, b) == IF b = 0 THEN j * (n - j + 1) ELSE ((n - j) * (n - j + 1)) \div 2

\* The lengths tadbit passes in the construction loop (lines 378-380).
BuildLen(n, i, j, b) ==
  IF b = 0 THEN i * (j - i + 1)
  ELSE IF b = 1 THEN ((j - i) * (j - i + 1)) \div 2
  ELSE (n - j - 1) * (j - i + 1)

\* The ml_ab calls of one loop iteration: cut pair, buffer, length passed,
\* and the numbers of values the preceding break_in_blocks calls wrote to
\* k_blk[buf] (kw) and d_blk[buf] (dw).
Call(site, n, i, j, b, L) ==
  [site |-> site, i |-> i, j |-> j, buf |-> b, L |-> L,
   kw |-> Written(n, i, j, b), dw |-> Written(n, i, j, b)]

IsLocalMax_ge(llik, i) == llik[i] >= llik[i - 1] /\ llik[i] >= llik[i + 1]

\* Line 186.
IsLocalMax(llik, i) == llik[i] > llik[i - 1] /\ llik[i] > llik[i + 1]

\* Lines 181-189.
MarkMaxima(n, llik) ==
  [i \in 0..(n - 1) |->
     IF i = n - 1 THEN 1
     ELSE IF i \in 3..(n - 2) /\ IsLocalMax(llik, i) THEN 1 ELSE 0]

BuildJStart_adj(i) == i + 1

\* Line 364.
BuildJStart(i) == i + 2

\* Lines 364-382: the j loop of row i, from column j on; every fit of a
\* non-empty sequence returns r, for each of the m replicates.
RECURSIVE BuildRowFrom(_, _, _, _, _, _, _)
BuildRowFrom(llik, n, m, bkpts, i, j, r) ==
  IF ~(j < n) THEN llik
  ELSE IF bkpts[j] # 1 THEN BuildRowFrom(llik, n, m, bkpts, i, j + 1, r)
  ELSE BuildRowFrom(
         [llik EXCEPT ![i + j * n] =
            D(m * (MlRet(BuildLen(n, i, j, 0), r) \div 2
                   + MlRet(BuildLen(n, i, j, 1), r)
                   + MlRet(BuildLen(n, i, j, 2), r) \div 2))],
         n, m, bkpts, i, j + 1, r)

\* Lines 358-383: the i loop from row i on.
RECURSIVE BuildLoopFrom(_, _, _, _, _, _)
BuildLoopFrom(llik, n, m, bkpts, i, r) ==
  IF ~(i < n - 2) THEN llik
  ELSE IF i > 0 /\ bkpts[i - 1] # 1 THEN BuildLoopFrom(llik, n, m, bkpts, i + 1, r)
  ELSE BuildLoopFrom(BuildRowFrom(llik, n, m, bkpts, i, BuildJStart(i), r),
                     n, m, bkpts, i + 1, r)

NoProf == [x \in {} |-> 0]

TadInit ==
  \E n \in 1..MaxNT, m \in 1..MaxM, fast \in BOOLEAN, g \in ProfGarbage :
    tad = [pc |-> "entry", n |-> n, m |-> m, fast |-> fast, i |-> 0, j |-> 0,
           dis |-> NoProf, llik |-> NoProf, bkpts |-> NoProf,
           prof |-> [x \in 0..(n - 1) |-> g], profw |-> {}, calls |-> {}]

\* Lines 303-345: dis and llik are filled, every index is made a candidate,
\* and with fast set remove_non_local_maxima is entered.
TadStart ==
  /\ tad.pc = "entry"
  /\ tad' = [tad EXCEPT
       !.pc = IF tad.fast THEN "fwd" ELSE "build",
       !.dis = [x \in 0..(tad.n * tad.n - 1) |->
                  LET i == x \div tad.n
                      j == x % tad.n
                  IN  IF i < j THEN j - i ELSE i - j],
       !.llik = [x \in 0..(tad.n * tad.n - 1) |-> NaN],
       !.bkpts = [x \in 0..(tad.n - 1) |-> 1],
       !.i = 0,
       !.j = 2]
  /\ UNCHANGED <<blk, ml, gb>>

\* Lines 152-165, one iteration of the forward scan.
FwdStep ==
  /\ tad.pc = "fwd"
  /\ tad.j < tad.n
  /\ \E r \in MlVals :
       LET n == tad.n
           j == tad.j
           v == tad.m * (MlRet(FwdLen(n, j, 1), r) + MlRet(FwdLen(n, j, 2), r) \div 2)
       IN  tad' = [tad EXCEPT !.prof[j] = v, !.profw = tad.profw \cup {j},
                              !.calls = {Call("fwd", n, 0, j, b, FwdLen(n, j, b)) : b \in {1, 2}},
                              !.j = j + 1]
  /\ UNCHANGED <<blk, ml, gb>>

FwdExit ==
  /\ tad.pc = "fwd"
  /\ ~(tad.j < tad.n)
  /\ tad' = [tad EXCEPT !.pc = "bwd", !.j = 3, !.calls = {}]
  /\ UNCHANGED <<blk, ml, gb>>

\* Lines 168-179, one iteration of the backward scan.
BwdStep ==
  /\ tad.pc = "bwd"
  /\ tad.j < tad.n - 3
  /\ \E r \in MlVals :
       LET n == tad.n
           j == tad.j
           v == tad.m * (MlRet(BwdLen(n, j, 0), r) \div 2 + MlRet(BwdLen(n, j, 1), r))
       IN  tad' = [tad EXCEPT !.prof[j - 1] = tad.prof[j - 1] + v,
                              !.profw = tad.profw \cup {j - 1},
                              !.calls = {Call("bwd", n, j, n - 1, b, BwdLen(n, j, b)) : b \in {0, 1}},
                              !.j = j + 1]
  /\ UNCHANGED <<blk, ml, gb>>

\* Lines 181-189 and the return to tadbit.
Mark ==
  /\ tad.pc = "bwd"
  /\ ~(tad.j < tad.n - 3)
  /\ tad' = [tad EXCEPT !.pc = "build", !.bkpts = MarkMaxima(tad.n, tad.prof),
                        !.i = 0, !.calls = {}]
  /\ UNCHANGED <<blk, ml, gb>>

\* Lines 358-383, one iteration of the i loop.
BuildRow ==
  /\ tad.pc = "build"
  /\ tad.i < tad.n - 2
  /\ LET n == tad.n
         i == tad.i
         skip == i > 0 /\ tad.bkpts[i - 1] # 1
     IN  \E r \in (IF skip THEN {0} ELSE MlVals) :
           tad' = [tad EXCEPT
             !.llik = IF skip THEN tad.llik
                      ELSE BuildRowFrom(tad.llik, n, tad.m, tad.bkpts, i, BuildJStart(i), r),
             !.calls = IF skip THEN {}
                       ELSE {Call("build", n, i, j, b, BuildLen(n, i, j, b)) :
                               j \in {c \in BuildJStart(i)..(n - 1) : tad.bkpts[c] = 1},
                               b \in 0..2},
             !.prof = NoProf, !.profw = {},
             !.i = i + 1]
  /\ UNCHANGED <<blk, ml, gb>>

BuildExit ==
  /\ tad.pc = "build"
  /\ ~(tad.i < tad.n - 2)
  /\ tad' = [tad EXCEPT !.pc = "built", !.prof = NoProf, !.profw = {}, !.calls = {}]
  /\ UNCHANGED <<blk, ml, gb>>

InitTad == TadInit /\ blk = Idle /\ ml = Idle /\ gb = Idle

NextTad == TadStart \/ FwdStep \/ FwdExit \/ BwdStep \/ Mark \/ BuildRow \/ BuildExit

SpecTad == InitTad /\ [][NextTad]_vars

\* The state in which remove_non_local_maxima has just returned.
Filtered == tad.pc = "build" /\ tad.fast /\ tad.i = 0 /\ tad.prof # NoProf

\* Entry (i,j) of the likelihood matrix is in the range the contract names.
InRange(i, j) ==
  /\ 0 <= i
  /\ i <= tad.n - 3
  /\ i + 2 <= j
  /\ j <= tad.n - 1
  /\ tad.bkpts[j] = 1
  /\ (i = 0 \/ tad.bkpts[i - 1] = 1)

\* C5: after the construction loop, llik[i+j*n] is computed (not NaN)
\* exactly when 0 <= i <= n-3, i+2 <= j <= n-1, j is a candidate and i = 0
\* or i-1 is a candidate; without fast mode that is every pair with
\* i+2 <= j.
C5_ComputedEntries ==
  tad.pc = "built" =>
    /\ \A i, j \in 0..(tad.n - 1) : ~IsNaN(tad.llik[i + j * tad.n]) <=> InRange(i, j)
    /\ ~tad.fast => \A i, j \in 0..(tad.n - 1) : i + 2 <= j => ~IsNaN(tad.llik[i + j * tad.n])

\* The loop has finished in fast mode with an interior candidate: an entry
\* with i > 0 is computed and an entry with i+2 <= j is not.
C5_Witness ==
  /\ tad.pc = "built"
  /\ tad.fast
  /\ \E i, j \in 1..(tad.n - 1) : ~IsNaN(tad.llik[i + j * tad.n])
  /\ \E i, j \in 0..(tad.n - 1) : i + 2 <= j /\ IsNaN(tad.llik[i + j * tad.n])

\* C7 as stated: in fast mode index n-1 is a candidate and an interior
\* index i (0 < i < n-1) is one exactly when its score strictly exceeds
\* those of i-1 and i+1, all compared scores being written by the scans of
\* the same call; without fast mode every index is a candidate.
C7_AllInterior ==
  /\ Filtered =>
       /\ tad.bkpts[tad.n - 1] = 1
       /\ \A i \in 1..(tad.n - 2) :
            /\ {i - 1, i, i + 1} \subseteq tad.profw
            /\ tad.bkpts[i] = 1 <=>
                 (tad.prof[i] > tad.prof[i - 1] /\ tad.prof[i] > tad.prof[i + 1])
  /\ (tad.pc = "build" /\ ~tad.fast) => \A i \in 0..(tad.n - 1) : tad.bkpts[i] = 1

\* C7 amended: the same for the interior indices i >= 3 only; the indices
\* 0, 1 and 2 below n-1 are never candidates in fast mode.
C7_FromThree ==
  /\ Filtered =>
       /\ tad.bkpts[tad.n - 1] = 1
       /\ \A i \in 0..(tad.n - 2) :
            /\ i >= 3 => {i - 1, i, i + 1} \subseteq tad.profw
            /\ tad.bkpts[i] = 1 <=>
                 (i >= 3 /\ tad.prof[i] > tad.prof[i - 1] /\ tad.prof[i] > tad.prof[i + 1])
  /\ (tad.pc = "build" /\ ~tad.fast) => \A i \in 0..(tad.n - 1) : tad.bkpts[i] = 1

\* The filter has returned with an interior candidate and a rejected
\* interior index >= 3.
C7_Witness ==
  /\ Filtered
  /\ \E i \in 3..(tad.n - 2) : tad.bkpts[i] = 1
  /\ \E i \in 3..(tad.n - 2) : tad.bkpts[i] = 0

\* C8: every ml_ab call of the forward scan, the backward scan and the
\* construction loop gets as length the number of values the preceding
\* break_in_blocks calls at the same cut pair wrote to that buffer.
C8_LengthsMatch ==
  \A c \in tad.calls : c.L = c.kw /\ c.L = c.dw

----------------------------------------------------------------------------
(* get_breakpoints *)

MaxN == 9

\* Cap on the rounds of the while loop (the source has none).
MaxRounds == 6

\* Values that differ from the base value 0 in at most two computed entries
\* of the likelihood matrix.
BumpVals == {-1, 1}

\* Contents of new_llik before it is written: slot j holds
\* GarbageVals[(seed + j) % 3 + 1].
GarbageVals == <<NaN, D(-7), D(7)>>

\* The candidate masks tadbit can hold when the construction loop starts.
Masks(n, fast) ==
  IF fast THEN {MarkMaxima(n, p) : p \in [0..(n - 1) -> {0, 1}]}
  ELSE {[x \in 0..(n - 1) |-> 1]}

\* What the construction loop leaves for the mask bkpts: NaN where it
\* computes nothing.
Pattern(n, bkpts) == BuildLoopFrom([x \in 0..(n * n - 1) |-> NaN], n, 1, bkpts, 0, 0)

\* A matrix of that pattern: 0 in the computed entries, but for those at x1
\* and x2.
Matrix(pat, x1, v1, x2, v2) ==
  [x \in DOMAIN pat |->
     IF IsNaN(pat[x]) THEN NaN
     ELSE D((IF x = x1 THEN v1 ELSE 0) + (IF x = x2 THEN v2 ELSE 0))]

GbStart(n, llik, seed) ==
  [pc |-> "call", n |-> n, llik |-> llik,
   new_llik |-> [j \in 0..(n - 1) |-> GarbageVals[((seed + j) % 3) + 1]],
   old_llik |-> NoProf, new_bkpt_list |-> NoProf, old_bkpt_list |-> NoProf,
   new_full_llik |-> D(0), old_full_llik |-> D(0),
   nbreaks |-> 0, new_breakpoint |-> 0, all_breakpoints |-> NoProf,
   scores |-> <<>>]

GbInit ==
  \E n \in 1..MaxN, fast \in BOOLEAN :
    \E bkpts \in Masks(n, fast) :
      LET pat == Pattern(n, bkpts)
          comp == {x \in DOMAIN pat : ~IsNaN(pat[x])}
      IN  \E x1 \in comp \cup {-1}, x2 \in comp \cup {-1} :
            \E v1 \in (IF x1 = -1 THEN {0} ELSE BumpVals),
               v2 \in (IF x2 = -1 THEN {0} ELSE BumpVals), seed \in 0..2 :
              /\ x1 < x2 \/ x1 = -1
              /\ gb = GbStart(n, Matrix(pat, x1, v1, x2, v2), seed)

\* Lines 199-225.  scores records new_full_llik at every loop test.
GbEnter ==
  /\ gb.pc = "call"
  /\ gb' = [gb EXCEPT
       !.pc = "loop",
       !.old_llik = [j \in 0..(gb.n - 1) |-> gb.llik[j * gb.n]],
       !.new_bkpt_list = [x \in 0..(gb.n * gb.n - 1) |-> 0],
       !.old_bkpt_list = [x \in 0..(gb.n * gb.n - 1) |-> 0],
       !.new_full_llik = gb.llik[(gb.n - 1) * gb.n],
       !.old_full_llik = NegInf,
       !.scores = <<gb.llik[(gb.n - 1) * gb.n]>>]
  /\ UNCHANGED <<blk, ml, tad>>

Continue_le(old, new) == Le(old, new)

\* Line 227: while (old_full_llik < new_full_llik).
Continue(old, new) == Lt(old, new)

Better_rev(tmp, cur) == Lt(tmp, cur)

\* Line 246: if (tmp > new_llik[j]).
Better(tmp, cur) == Lt(cur, tmp)

NewBreakpoint_i(i) == i

\* Line 248.
NewBreakpoint(i) == i - 1

\* Lines 242-250: the i loop for end point j, from i on; cur is new_llik[j]
\* and nb is new_breakpoint.
RECURSIVE ScanI(_, _, _, _, _)
ScanI(g, cur, nb, i, j) ==
  IF ~(i < j - 1) THEN [v |-> cur, nb |-> nb]
  ELSE LET tmp == Add(g.old_llik[i - 1], g.llik[i + j * g.n])
       IN  IF Better(tmp, cur) THEN ScanI(g, tmp, NewBreakpoint(i), i + 1, j)
           ELSE ScanI(g, cur, nb, i + 1, j)

\* Lines 238-260: the j loop from j on.
RECURSIVE ScanJ(_, _)
ScanJ(g, j) ==
  IF ~(j < g.n) THEN g
  ELSE LET s == ScanI(g, NegInf, g.new_breakpoint, 3 * g.nbreaks, j)
       IN  ScanJ([g EXCEPT
                    !.new_llik[j] = s.v,
                    !.new_breakpoint = s.nb,
                    !.new_bkpt_list =
                       IF Lt(NegInf, s.v)
                       THEN [x \in DOMAIN g.new_bkpt_list |->
                               IF x % g.n = j
                               THEN IF x \div g.n = s.nb THEN 1
                                    ELSE g.old_bkpt_list[s.nb + (x \div g.n) * g.n]
                               ELSE g.new_bkpt_list[x]]
                       ELSE g.new_bkpt_list],
                 j + 1)

\* Lines 227-269, one iteration of the while loop.
Round ==
  /\ gb.pc = "loop"
  /\ Continue(gb.old_full_llik, gb.new_full_llik)
  /\ gb.nbreaks < MaxRounds
  /\ LET g0 == [gb EXCEPT !.nbreaks = gb.nbreaks + 1, !.old_bkpt_list = gb.new_bkpt_list]
         g1 == ScanJ(g0, 3 * g0.nbreaks + 2)
     IN  gb' = [g1 EXCEPT !.old_full_llik = gb.new_full_llik,
                          !.new_full_llik = g1.new_llik[gb.n - 1],
                          !.old_llik = g1.new_llik,
                          !.scores = Append(gb.scores, g1.new_llik[gb.n - 1])]
  /\ UNCHANGED <<blk, ml, tad>>

\* Lines 272-279.
GbReturn ==
  /\ gb.pc = "loop"
  /\ ~Continue(gb.old_full_llik, gb.new_full_llik)
  /\ gb' = [gb EXCEPT !.pc = "done",
                      !.all_breakpoints = [i \in 0..(gb.n - 1) |-> gb.old_bkpt_list[gb.n - 1 + i * gb.n]]]
  /\ UNCHANGED <<blk, ml, tad>>

InitDP == GbInit /\ blk = Idle /\ ml = Idle /\ tad = Idle

NextDP == GbEnter \/ Round \/ GbReturn

SpecDP == InitDP /\ [][NextDP]_vars

----------------------------------------------------------------------------
(* Statements about get_breakpoints *)

Entry(i, j) == gb.llik[i + j * gb.n]

\* The positions the returned vector marks.
Ones == {i \in DOMAIN gb.all_breakpoints : gb.all_breakpoints[i] = 1}

Min(S) == CHOOSE x \in S : \A y \in S : x <= y

\* The breakpoint sets that cut start..n-1 into segments of 3 bins or more.
RECURSIVE Cuts(_)
Cuts(start) ==
  (IF gb.n - start >= 3 THEN {{}} ELSE {})
  \cup UNION {{{b} \cup S : S \in Cuts(b + 1)} : b \in (start + 2)..(gb.n - 4)}

\* The sum of the matrix entries over the segments S defines on start..n-1.
RECURSIVE Total(_, _)
Total(start, S) ==
  IF S = {} THEN Entry(start, gb.n - 1)
  ELSE Add(Entry(start, Min(S)), Total(Min(S) + 1, S \ {Min(S)}))

\* The breakpoint sets of the claims: spacing respected, entries computed.
Rivals == {S \in Cuts(0) : ~IsNaN(Total(0, S))}

Returned == gb.pc = "done"

\* C1: the returned vector has n entries, each 0 or 1, and entry n-1 is 1.
C1_LastIsOne ==
  Returned =>
    /\ DOMAIN gb.all_breakpoints = 0..(gb.n - 1)
    /\ \A i \in 0..(gb.n - 1) : gb.all_breakpoints[i] \in {0, 1}
    /\ gb.all_breakpoints[gb.n - 1] = 1

C4_MinSpacing ==
  Returned =>
    /\ \A p \in Ones : p < gb.n - 1 => (p >= 2 /\ p <= gb.n - 4)
    /\ \A p, q \in Ones : p < q => q - p >= 3
    /\ Ones \ {gb.n - 1} # {} => Ones \ {gb.n - 1} \in Cuts(0)

\* Two breakpoints were returned.
C4_Witness ==
  /\ Returned
  /\ Cardinality(Ones) >= 2

\* The number of the last strictly improving round when the loop is left:
\* of the nbreaks rounds run, all but the last improved.
LastImproving == IF gb.nbreaks = 0 THEN 0 ELSE gb.nbreaks - 1

\* C9: a round follows round k only if the score at n-1 after round k is
\* strictly greater than the score before it; the returned vector has as
\* many ones as the last strictly improving round k*, and its total is the
\* best total of a k*-breakpoint set.
C9_LastImprovingRound ==
  /\ gb.pc \in {"loop", "done"} =>
       \A k \in 1..(gb.nbreaks - 1) : Lt(gb.scores[k], gb.scores[k + 1])
  /\ Returned =>
       /\ Cardinality(Ones) = LastImproving
       /\ Rivals # {} => Ones \in Rivals
       /\ \A S \in Rivals : Cardinality(S) = LastImproving => Le(Total(0, S), Total(0, Ones))

\* C10: the while loop runs at most floor(n/3)+1 rounds, whatever new_llik
\* holds before it is written.
C10_RoundBound ==
  gb.pc # "idle" => gb.nbreaks <= (gb.n \div 3) + 1

\* The loop was left after three rounds, the last of which wrote no score
\* for position n-1.
C10_Witness ==
  /\ Returned
  /\ gb.nbreaks = 3
  /\ 3 * gb.nbreaks + 2 > gb.n - 1

====
